---- MODULE Spec2Model ----
(***************************************************************************)
(* Model of filter.py: filter_sentences (the sentence-budget filter) and   *)
(* the row loop of main (header passthrough, column validation, one output *)
(* record per data row).                                                   *)
(***************************************************************************)
EXTENDS Integers, Sequences, FiniteSets, TLC

\* ---------------------------------------------------------------- bounds
MaxLen == 3        \* sentences per call of filter_sentences
MaxWC == 2         \* tokens per sentence
MaxWords == 3      \* largest max_words handed to filter_sentences
MaxRows == 2       \* records in the input file
MaxCols == 3       \* columns per record
MaxWordsArg == 3   \* largest --maxWords on the command line

Tokens == {"a", "."}

SeqsUpTo(S, n) == UNION {[1..k -> S] : k \in 0..n}

Reverse(s) == [i \in 1..Len(s) |-> s[Len(s) + 1 - i]]

\* ------------------------------------------------------ filter_sentences
\* len(sentence): the number of tokens of the sentence
NumWords(sentence) == Len(sentence)

\* str(sentence): the surface text, the characters of its tokens
Str(sentence) == [i \in 1..Len(sentence) |-> sentence[i]]

\* ' '.join(lines)
RECURSIVE Join(_)
Join(ls) ==
  IF Len(ls) = 0 THEN <<>>
  ELSE IF Len(ls) = 1 THEN ls[1]
  ELSE ls[1] \o <<" ">> \o Join(Tail(ls))

IterationForward(sentences, s) == sentences

\* if src: sentences = reversed(list(sentences))
Iteration(sentences, s) == IF s THEN Reverse(sentences) ELSE sentences

AdmitBudgetOnly(wc, num_words, mw) == wc + num_words <= mw

AdmitStrict(wc, num_words, mw) == wc = 0 \/ wc + num_words < mw

AdmitPerSentence(wc, num_words, mw) == wc = 0 \/ num_words <= mw

\* if word_count == 0 or word_count + num_words <= max_words
Admit(wc, num_words, mw) == wc = 0 \/ wc + num_words <= mw

\* the for loop: append while Admit holds, break at the first rejection
RECURSIVE Loop(_, _, _, _, _)
Loop(it, i, ls, wc, mw) ==
  IF i > Len(it) THEN [lines |-> ls, word_count |-> wc]
  ELSE LET num_words == NumWords(it[i]) IN
       IF Admit(wc, num_words, mw)
       THEN Loop(it, i + 1, Append(ls, Str(it[i])), wc + num_words, mw)
       ELSE [lines |-> ls, word_count |-> wc]

RestoreNone(ls, s) == ls

\* if src: lines = reversed(lines)
Restore(ls, s) == IF s THEN Reverse(ls) ELSE ls

filter_sentences(sents, mw, s) ==
  LET r == Loop(Iteration(sents, s), 1, <<>>, 0, mw)
      o == Restore(r.lines, s)
  IN [lines |-> r.lines, word_count |-> r.word_count,
      out |-> o, result |-> Join(o)]

\* ------------------------------------------------------------------ main
\* nlp(text).sents: a sentence ends after each "." token or at end of text
RECURSIVE Sents(_)
Sents(text) ==
  IF Len(text) = 0 THEN <<>>
  ELSE LET ends == {i \in 1..Len(text) : text[i] = "." \/ i = Len(text)}
           e == CHOOSE i \in ends : \A j \in ends : i <= j
       IN <<SubSeq(text, 1, e)>> \o Sents(SubSeq(text, e + 1, Len(text)))

SrcFiltHead(row, mw) == filter_sentences(Sents(row[1]), mw, FALSE).result

\* src_filt = filter_sentences(sentences=src_doc.sents, ..., src=True)
SrcFilt(row, mw) == filter_sentences(Sents(row[1]), mw, TRUE).result

\* tgt_filt = filter_sentences(sentences=tgt_doc.sents, ..., src=False)
TgtFilt(row, mw) == filter_sentences(Sents(row[2]), mw, FALSE).result

\* if not len(row) == 2
ColsOk(row) == Len(row) = 2

ReceivedExpected(row) == 2

\* "Received: {}".format(len(row))
Received(row) == Len(row)

\* a header is written only when next(reader, None) is truthy
Truthy(headers) == Len(headers) > 0

VARIABLES
  sentences, max_words, src, fpc, lines, word_count, out, result,
  input, hasheader, maxWords, pc, pos, output, error

fvars == <<sentences, max_words, src, fpc, lines, word_count, out, result>>
mvars == <<input, hasheader, maxWords, pc, pos, output, error>>
vars == <<sentences, max_words, src, fpc, lines, word_count, out, result,
          input, hasheader, maxWords, pc, pos, output, error>>

Sentence == SeqsUpTo(Tokens, MaxWC)
Budgets == (0 - 1)..MaxWords

\* column texts of the input file: the empty text and a text of two
\* sentences, "a." (2 tokens) and "a" (1 token)
Texts == {<<>>, <<"a", ".", "a">>}
Rows == SeqsUpTo(Texts, MaxCols)

FilterIdle ==
  /\ sentences = <<>> /\ max_words = 0 /\ src = FALSE /\ fpc = "idle"
  /\ lines = <<>> /\ word_count = 0 /\ out = <<>> /\ result = <<>>

MainIdle ==
  /\ input = <<>> /\ hasheader = FALSE /\ maxWords = 0 /\ pc = "idle"
  /\ pos = 1 /\ output = <<>> /\ error = 0 - 1

\* ---- specification of filter_sentences as a called function
InitFilter ==
  /\ sentences \in SeqsUpTo(Sentence, MaxLen)
  /\ max_words \in Budgets
  /\ src \in BOOLEAN
  /\ fpc = "call"
  /\ lines = <<>> /\ word_count = 0 /\ out = <<>> /\ result = <<>>
  /\ MainIdle

FilterCall ==
  /\ fpc = "call"
  /\ LET r == filter_sentences(sentences, max_words, src) IN
       /\ lines' = r.lines
       /\ word_count' = r.word_count
       /\ out' = r.out
       /\ result' = r.result
  /\ fpc' = "returned"
  /\ UNCHANGED <<sentences, max_words, src>>
  /\ UNCHANGED mvars

NextFilter == FilterCall

SpecFilter == InitFilter /\ [][NextFilter]_vars

\* ---- specification of main
Init ==
  /\ input \in SeqsUpTo(Rows, MaxRows)
  /\ hasheader \in BOOLEAN
  /\ maxWords \in 1..MaxWordsArg
  /\ pc = "start"
  /\ pos = 1
  /\ output = <<>>
  /\ error = 0 - 1
  /\ FilterIdle

\* the files are open and the header step has not run
HeaderReady == pc = "start"

\* "for row in reader" yields a row
RowReady == pc = "rows" /\ pos <= Len(input)

\* "for row in reader" ends: the reader has no more rows
Exhausted == pc = "rows" /\ pos > Len(input)

\* if args.hasheader: headers = next(reader, None); if headers: writerow
Header ==
  /\ HeaderReady
  /\ IF hasheader /\ Len(input) >= 1
     THEN /\ pos' = 2
          /\ output' = IF Truthy(input[1]) THEN <<input[1]>> ELSE <<>>
     ELSE UNCHANGED <<pos, output>>
  /\ pc' = "rows"
  /\ UNCHANGED <<input, hasheader, maxWords, error>>
  /\ UNCHANGED fvars

\* one iteration of "for row in reader" with a well-formed row
ProcessRow ==
  /\ RowReady
  /\ ColsOk(input[pos])
  /\ LET row == input[pos]
         src_filt == SrcFilt(row, maxWords)
         tgt_filt == TgtFilt(row, maxWords)
     IN output' = Append(output, <<src_filt, tgt_filt>>)
  /\ pos' = pos + 1
  /\ UNCHANGED <<input, hasheader, maxWords, pc, error>>
  /\ UNCHANGED fvars

\* raise AssertionError("Expected 2 cols (src, tgt). Received: {}")
RaiseAssertion ==
  /\ RowReady
  /\ ~ColsOk(input[pos])
  /\ error' = Received(input[pos])
  /\ pc' = "failed"
  /\ UNCHANGED <<input, hasheader, maxWords, pos, output>>
  /\ UNCHANGED fvars

\* the reader is exhausted: print("Done. Bye!")
Finish ==
  /\ Exhausted
  /\ pc' = "done"
  /\ UNCHANGED <<input, hasheader, maxWords, pos, output, error>>
  /\ UNCHANGED fvars

Next == Header \/ ProcessRow \/ RaiseAssertion \/ Finish

Spec == Init /\ [][Next]_vars

\* ------------------------------------------------------------ properties
RECURSIVE SumWords(_)
SumWords(ss) == IF Len(ss) = 0 THEN 0 ELSE NumWords(Head(ss)) + SumWords(Tail(ss))

TextsOf(ss) == [i \in 1..Len(ss) |-> Str(ss[i])]

\* C1: the selection is empty exactly when the input is empty; a non-empty
\* input always yields at least one selected sentence (for max_words >= 0,
\* even if that sentence alone exceeds the budget) and an empty input
\* yields the empty string.
C1_NonEmptySelection ==
  fpc = "returned" =>
    /\ Len(sentences) = 0 => (Len(lines) = 0 /\ Len(out) = 0 /\ result = <<>>)
    /\ (Len(sentences) > 0 /\ max_words >= 0) => (Len(lines) >= 1 /\ Len(out) >= 1)

C1_Witness ==
  /\ fpc = "returned" /\ max_words >= 0
  /\ Len(sentences) = 1 /\ NumWords(sentences[1]) > max_words
  /\ Len(lines) = 1

\* C2: with src=TRUE the k selected sentences are the positions n-k+1..n of
\* the input (taken from the last one backward), with src=FALSE they are
\* the positions 1..k; no position inside the span is skipped.
C2_ContiguousSpan ==
  fpc = "returned" =>
    LET n == Len(sentences)
        k == Len(lines)
        T == TextsOf(sentences)
    IN /\ k <= n
       /\ \A i \in 1..k : lines[i] = IF src THEN T[n + 1 - i] ELSE T[i]

C2_Witness ==
  /\ fpc = "returned" /\ src
  /\ Len(lines) = 2 /\ Len(sentences) = 3
  /\ Str(sentences[1]) # Str(sentences[3])

\* C3: the returned string lists the selected sentences in the order they
\* have in the input, for either direction; the backward-built selection
\* of src=TRUE is reversed again before the join.
C3_OriginalOrder ==
  fpc = "returned" =>
    LET n == Len(sentences)
        k == Len(out)
        T == TextsOf(sentences)
    IN /\ k <= n
       /\ \E lo \in 1..(n - k + 1) : out = SubSeq(T, lo, lo + k - 1)
       /\ result = Join(out)

C3_Witness ==
  /\ fpc = "returned" /\ src
  /\ Len(lines) >= 2 /\ out # lines

\* C4: when max_words is at least the total word count of the input, every
\* sentence is selected, once each and in input order.
C4_Saturation ==
  (fpc = "returned" /\ max_words >= SumWords(sentences)) =>
    (out = TextsOf(sentences) /\ result = Join(TextsOf(sentences)))

C4_Witness ==
  /\ fpc = "returned" /\ Len(sentences) >= 2
  /\ max_words = SumWords(sentences) /\ max_words > 0
  /\ \A i \in 1..Len(sentences) : NumWords(sentences[i]) > 0
  /\ Len(out) = Len(sentences)

\* C5: for max_words >= 0, when k > 1 sentences are selected the word
\* counts of the first k-1 sentences in append order sum to at most
\* max_words.
C5_AllButLastWithinBudget ==
  (fpc = "returned" /\ max_words >= 0 /\ Len(lines) > 1) =>
    SumWords(SubSeq(Iteration(sentences, src), 1, Len(lines) - 1)) <= max_words

C5_Witness ==
  /\ fpc = "returned" /\ max_words >= 0
  /\ Len(lines) > 1 /\ Len(lines) < Len(sentences)
  /\ SumWords(SubSeq(Iteration(sentences, src), 1, Len(lines) - 1)) = max_words

\* C6: for a budget max_words >= 0 the selected sentences total more than
\* max_words only when exactly one sentence is selected (sentences of any
\* word count >= 0).
C6_OnlyLoneSentenceExceeds ==
  (fpc = "returned" /\ max_words >= 0 /\ word_count > max_words) =>
    Len(lines) = 1

\* the greedy rule of the specification: append while the selection is
\* empty or the running count plus the candidate fits, stop at the first
\* candidate that does not
RECURSIVE RefGreedy(_, _, _, _, _)
RefGreedy(it, i, sel, wc, mw) ==
  IF i > Len(it) THEN sel
  ELSE IF Len(sel) = 0 \/ wc + Len(it[i]) <= mw
       THEN RefGreedy(it, i + 1, Append(sel, it[i]), wc + Len(it[i]), mw)
       ELSE sel

\* C10: filter_sentences selects exactly what the reference greedy rule
\* selects, for sentences of any word count >= 0, every max_words and
\* either direction.
C10_EqualsReferenceGreedy ==
  fpc = "returned" =>
    lines = RefGreedy(IF src THEN Reverse(sentences) ELSE sentences,
                      1, <<>>, 0, max_words)

\* index of the first data row of the input
FirstData == IF hasheader /\ Len(input) >= 1 THEN 2 ELSE 1

\* number of data rows the loop has written a record for
Written == pos - FirstData

\* the records written by the row loop: the last Written records of output
DataRecords == SubSeq(output, Len(output) - Written + 1, Len(output))

\* longest prefix (tail = FALSE) or suffix (tail = TRUE) of the sentences
\* that has one sentence or fits the budget, joined by single spaces
RefSpan(ss, mw, tail) ==
  LET n == Len(ss)
      span(j) == IF tail THEN SubSeq(ss, n - j + 1, n) ELSE SubSeq(ss, 1, j)
      ok == {j \in 0..n : j <= 1 \/ SumWords(span(j)) <= mw}
      k == CHOOSE j \in ok : \A m \in ok : m <= j
  IN Join(span(k))

ExpectedRecord(row) ==
  <<RefSpan(Sents(row[1]), maxWords, TRUE), RefSpan(Sents(row[2]), maxWords, FALSE)>>

AllDataRowsOk == \A i \in FirstData..Len(input) : Len(input[i]) = 2

\* C7: the run fails at the first data row whose column count is not 2 and
\* reports that count; no earlier data row with another count is passed over,
\* no record is written for the failing row or any later one, and the
\* records of the preceding rows stay in the output.
C7_FailsOnFirstBadRow ==
  /\ pc \in {"rows", "done", "failed"} =>
       \A i \in FirstData..(pos - 1) : Len(input[i]) = 2
  /\ pc = "done" => AllDataRowsOk
  /\ pc = "failed" =>
       /\ pos \in FirstData..Len(input)
       /\ Len(input[pos]) # 2
       /\ error = Len(input[pos])
       /\ Len(output) - Written \in {0, 1}
       /\ DataRecords = [i \in 1..Written |-> ExpectedRecord(input[FirstData + i - 1])]
       /\ ~(HeaderReady \/ RowReady \/ Exhausted)

C7_Witness ==
  /\ pc = "failed" /\ ~hasheader
  /\ pos = 2 /\ Len(output) = 1
  /\ error = 1

\* steps main still has to take
Remaining ==
  (IF pc = "start" THEN 2 ELSE IF pc = "rows" THEN 1 ELSE 0) + (Len(input) + 1 - pos)

RecordsInOrder ==
  /\ Written = Len(input) - FirstData + 1
  /\ Len(output) - Written \in {0, 1}
  /\ hasheader \/ Len(output) = Written
  /\ DataRecords = [i \in 1..Written |-> ExpectedRecord(input[FirstData + i - 1])]

\* C8: when every data row has 2 columns the run never fails, one of its
\* steps is ready until it is DONE, every step lowers the number of
\* remaining steps (so DONE is reached), and at DONE the output holds exactly one
\* record per data row, in input order, the i-th being the tail-retaining
\* filter of the source and the head-retaining filter of the target of
\* row i under the same max_words.
C8_OneRecordPerRowInOrder ==
  /\ [](AllDataRowsOk =>
          /\ pc # "failed"
          /\ Remaining >= 0
          /\ pc # "done" => (HeaderReady \/ RowReady \/ Exhausted)
          /\ pc = "done" => RecordsInOrder)
  /\ [][Remaining' < Remaining]_vars

C8_Witness ==
  /\ pc = "done" /\ ~hasheader
  /\ Len(input) = 2 /\ Len(output) = 2
  /\ output[1] # output[2]
  /\ Len(Sents(input[1][1])) = 2 /\ output[1][1] # input[1][1]
  /\ output[1][1] # output[1][2] /\ input[1][1] = input[1][2]

\* C9: with the header flag set and a non-empty input, the first output
\* record is the first input record, unchanged, whatever its column count
\* (an empty record included), and it is neither validated nor filtered;
\* without the flag the first record is handled as a data row.
C9_HeaderCopiedVerbatim ==
  pc # "start" =>
    /\ (hasheader /\ Len(input) >= 1) =>
         /\ Len(output) = 1 + (pos - 2)
         /\ output[1] = input[1]
    /\ ~hasheader => Len(output) = pos - 1

====
